---- MODULE Spec2Model ----
(***************************************************************************)
(* The printer state manager of old_buddy (modules/state_manager.py):      *)
(* three state slots, the reported state history, the single expected      *)
(* state change, the nine decorated mutators called by the serial line     *)
(* handlers and the poller's update_state.                                 *)
(*                                                                         *)
(* Spec runs the manager one call at a time. SpecThreads runs the reader   *)
(* thread and the poller thread statement by statement. SpecBuddy is the   *)
(* core of old_buddy.py: the connect thread's handling of the service's    *)
(* responses, the ConnectAPI calls, the construction of the two guarded    *)
(* classes, the resume-print command, and stop(). SpecQueue is the serial  *)
(* queue behind the helpers of prusa_link/input_output/serial/helpers.py;  *)
(* SpecWait adds a caller of wait_for_instruction, scheduled fairly.       *)
(*                                                                         *)
(* Python's None is the string "None" for enum-valued fields and the empty *)
(* sequence Nothing for object-valued fields (an object x is Just(x)).     *)
(* A dict is a function whose DOMAIN is its key set.                       *)
(* The({F(x) : x \in {e}}) is F(e) with e evaluated once and named x: it   *)
(* is how a method's local variable is written.                            *)
(***************************************************************************)
EXTENDS Integers, Sequences, FiniteSets, TLC

\* ---------------------------------------------------------------- bounds

\* Command ids handed out by the remote service are 1..MaxCommandId.
MaxCommandId == 1

\* ----------------------------------------------------------------- enums

None == "None"

Nothing == <<>>

Just(x) == <<x>>

The(S) == CHOOSE x \in S : TRUE

States == {"READY", "BUSY", "PRINTING", "PAUSED", "FINISHED", "ATTENTION", "ERROR"}

Sources == {"USER", "MARLIN", "CONNECT", "WUI"}

PRINTING_STATES == {"PRINTING", "PAUSED", "FINISHED"}

EmptyDict == [k \in {} |-> None]

\* StateChange.__init__: a missing to_states / from_states becomes {}.
StateChange(api_response, to_states, from_states, default_source) ==
    [api_response |-> api_response,
     to_states |-> to_states,
     from_states |-> from_states,
     default_source |-> default_source]

\* util.get_command_id: the command id carried by the api response.
get_command_id(api_response) == api_response.command_id

\* ------------------------------------------------- StateManager methods
\* Every method is a function of the manager's fields, a record s with
\*   base_state, printing_state, override_state, internal_busy,
\*   last_state, current_state, expected_state_change (Nothing or Just(e)),
\* and of what the call has done so far:
\*   emitted  the state_changed signals sent, in order,
\*   sent     the lines written to the serial port, in order,
\*   raised   TRUE once an exception is propagating (the rest is skipped).

\* Faulty variant of get_state: the printing state hides an override.
get_state_wrong_precedence(s) ==
    IF s.printing_state # None THEN s.printing_state
    ELSE IF s.override_state # None THEN s.override_state
    ELSE s.base_state

get_state(s) ==
    IF s.override_state # None THEN s.override_state
    ELSE IF s.printing_state # None THEN s.printing_state
    ELSE s.base_state

\* Faulty variant of is_busy: the internal flag is not looked at.
is_busy_base_only(s) == s.base_state = "BUSY"

is_busy(s) == s.internal_busy \/ s.base_state = "BUSY"

expect_change(s, change) == [s EXCEPT !.expected_state_change = Just(change)]

stop_expecting_change(s) == [s EXCEPT !.expected_state_change = Nothing]

is_expected(s) ==
    IF s.expected_state_change # Nothing
    THEN LET state_change == s.expected_state_change[1]
             expected_to == s.current_state \in DOMAIN state_change.to_states
             expected_from == s.last_state \in DOMAIN state_change.from_states
             has_default_source == state_change.default_source # None
         IN expected_to \/ expected_from \/ has_default_source
    ELSE FALSE

\* Faulty variant of expected_source: on a conflict the to_states source wins.
expected_source_prefers_to(s) ==
    IF s.expected_state_change = Nothing THEN None
    ELSE LET state_change == s.expected_state_change[1]
             source_from == IF s.last_state \in DOMAIN state_change.from_states
                            THEN state_change.from_states[s.last_state] ELSE None
             source_to == IF s.current_state \in DOMAIN state_change.to_states
                          THEN state_change.to_states[s.current_state] ELSE None
             source == IF source_to # None THEN source_to ELSE source_from
         IN IF source = None THEN state_change.default_source ELSE source

expected_source(s) ==
    IF s.expected_state_change = Nothing THEN None
    ELSE LET state_change == s.expected_state_change[1]
             source_from == IF s.last_state \in DOMAIN state_change.from_states
                            THEN state_change.from_states[s.last_state] ELSE None
             source_to == IF s.current_state \in DOMAIN state_change.to_states
                          THEN state_change.to_states[s.current_state] ELSE None
             source == IF source_from # None /\ source_to # None /\ source_to # source_from
                       THEN source_from
                       ELSE IF source_from # None THEN source_from
                       ELSE IF source_to # None THEN source_to
                       ELSE None
         IN IF source = None THEN state_change.default_source ELSE source

\* state_changed.send(self, command_id=..., source=...) as the listener sees
\* it: state is sender.current_state; the other fields record the manager at
\* the moment of the send (last_state, the three slots, the expectation that
\* was consulted and the expectation slot as the listener finds it).
Emission(s, consulted, command_id, source) ==
    [state |-> s.current_state,
     command_id |-> command_id,
     source |-> source,
     last |-> s.last_state,
     base |-> s.base_state,
     printing |-> s.printing_state,
     override |-> s.override_state,
     consulted |-> consulted,
     slot |-> s.expected_state_change]

send(s, consulted, command_id, source) ==
    [s EXCEPT !.emitted = Append(@, Emission(s, consulted, command_id, source))]

\* Faulty variant of state_may_have_changed: the command id is never attached.
smhc_no_command_id(s) ==
    IF s.raised THEN s
    ELSE IF get_state(s) # s.current_state
    THEN LET s1 == [s EXCEPT !.last_state = s.current_state,
                             !.current_state = get_state(s)]
             consulted == s1.expected_state_change
             s2 == [s1 EXCEPT !.expected_state_change = Nothing]
         IN IF is_expected(s1)
            THEN IF expected_source(s1) = None
                 THEN [s1 EXCEPT !.raised = TRUE]
                 ELSE send(s2, consulted, Nothing, expected_source(s1))
            ELSE send(s2, consulted, Nothing, None)
    ELSE s

\* source = self.expected_source().name raises AttributeError when the
\* expected source is None: the exception leaves state_may_have_changed after
\* the history was updated and before the expectation is cleared and the
\* signal sent.
state_may_have_changed(s) ==
    IF s.raised THEN s
    ELSE IF get_state(s) # s.current_state
    THEN LET s1 == [s EXCEPT !.last_state = s.current_state,
                             !.current_state = get_state(s)]
             consulted == s1.expected_state_change
             s2 == [s1 EXCEPT !.expected_state_change = Nothing]
         IN IF is_expected(s1)
            THEN IF expected_source(s1) = None
                 THEN [s1 EXCEPT !.raised = TRUE]
                 ELSE send(s2, consulted,
                           IF consulted[1].api_response # Nothing
                           THEN Just(get_command_id(consulted[1].api_response[1]))
                           ELSE Nothing,
                           expected_source(s1))
            ELSE send(s2, consulted, Nothing, None)
    ELSE s

\* --- State changing methods: the undecorated bodies ---

printing_func(s) ==
    IF s.printing_state = None THEN [s EXCEPT !.printing_state = "PRINTING"] ELSE s

\* Faulty variant of not_printing: the override goes with the print.
not_printing_func_clears_override(s) ==
    IF s.printing_state # None
    THEN [s EXCEPT !.printing_state = None, !.override_state = None]
    ELSE s

not_printing_func(s) ==
    IF s.printing_state # None THEN [s EXCEPT !.printing_state = None] ELSE s

\* Faulty variant of finished: the printing state is not looked at.
finished_func_unguarded(s) == [s EXCEPT !.printing_state = "FINISHED"]

finished_func(s) ==
    IF s.printing_state = "PRINTING" THEN [s EXCEPT !.printing_state = "FINISHED"] ELSE s

busy_func(s) ==
    IF s.base_state = "READY" THEN [s EXCEPT !.base_state = "BUSY"] ELSE s

paused_func(s) ==
    IF s.printing_state = "PRINTING" THEN [s EXCEPT !.printing_state = "PAUSED"] ELSE s

resumed_func(s) ==
    IF s.printing_state = "PAUSED" THEN [s EXCEPT !.printing_state = "PRINTING"] ELSE s

\* Faulty variant of ok: a FINISHED printing state is not cleared.
ok_func_keeps_finished(s) ==
    The({IF s1.raised THEN s1
         ELSE [s1 EXCEPT !.base_state = IF @ = "BUSY" THEN "READY" ELSE @] :
         s1 \in {IF s.override_state # None
                 THEN state_may_have_changed([s EXCEPT !.override_state = None])
                 ELSE s}})

ok_func(s) ==
    The({IF s1.raised THEN s1
         ELSE [s1 EXCEPT !.printing_state = IF @ = "FINISHED" THEN None ELSE @,
                         !.base_state = IF @ = "BUSY" THEN "READY" ELSE @] :
         s1 \in {IF s.override_state # None
                 THEN state_may_have_changed([s EXCEPT !.override_state = None])
                 ELSE s}})

attention_func(s) == [s EXCEPT !.override_state = "ATTENTION"]

error_func(s) == [s EXCEPT !.override_state = "ERROR"]

Mutators == {"printing", "not_printing", "finished", "busy", "paused",
             "resumed", "ok", "attention", "error"}

\* func(self, *args, **kwargs) of the wrapper, by the decorated method's name.
func(name, s) ==
    CASE name = "printing" -> printing_func(s)
      [] name = "not_printing" -> not_printing_func(s)
      [] name = "finished" -> finished_func(s)
      [] name = "busy" -> busy_func(s)
      [] name = "paused" -> paused_func(s)
      [] name = "resumed" -> resumed_func(s)
      [] name = "ok" -> ok_func(s)
      [] name = "attention" -> attention_func(s)
      [] name = "error" -> error_func(s)

\* The StateChange each @state_influencer(...) decoration is given.
default_state_change(name) ==
    CASE name = "printing" ->
           StateChange(Nothing, "PRINTING" :> "USER", EmptyDict, None)
      [] name = "not_printing" ->
           StateChange(Nothing, EmptyDict,
                       [k \in {"PRINTING", "PAUSED", "FINISHED"} |-> "MARLIN"], None)
      [] name = "finished" ->
           StateChange(Nothing, "FINISHED" :> "MARLIN", EmptyDict, None)
      [] name = "busy" ->
           StateChange(Nothing, "BUSY" :> "MARLIN", EmptyDict, None)
      [] name = "paused" ->
           StateChange(Nothing, "PAUSED" :> "USER", EmptyDict, None)
      [] name = "resumed" ->
           StateChange(Nothing, "PRINTING" :> "USER", EmptyDict, None)
      [] name = "ok" ->
           StateChange(Nothing, "READY" :> "MARLIN",
                       [k \in {"ATTENTION", "ERROR"} |-> "USER"], None)
      [] name = "attention" ->
           StateChange(Nothing, "ATTENTION" :> "USER", EmptyDict, None)
      [] name = "error" ->
           StateChange(Nothing, "ERROR" :> "WUI", EmptyDict, None)

\* wrapper(self, ...) is entered: the call of the mutator is noted.
enter(s, name) == [s EXCEPT !.called = Append(@, name)]

\* Faulty variant of the wrapper: the default replaces a caller's expectation.
state_influencer_always_installs(name, s) ==
    The({IF s3.raised THEN s3 ELSE stop_expecting_change(s3) :
         s3 \in {state_may_have_changed(s2) :
                 s2 \in {func(name, enter(s1, name)) :
                         s1 \in {expect_change(s, default_state_change(name))}}}})

\* Faulty variant of the wrapper: the installed default is never cleared.
state_influencer_never_clears(name, s) ==
    The({s3 :
         s3 \in {state_may_have_changed(s2) :
                 s2 \in {func(name, enter(s1, name)) :
                         s1 \in {IF s.expected_state_change = Nothing
                                 THEN expect_change(s, default_state_change(name))
                                 ELSE s}}}})

\* state_influencer(state_change)(func): the wrapper around each mutator.
\* has_set_expected_change is s.expected_state_change = Nothing: every
\* decoration gives a state_change. An exception leaves the wrapper before
\* stop_expecting_change.
state_influencer(name, s) ==
    The({IF s.expected_state_change = Nothing /\ ~s3.raised
         THEN stop_expecting_change(s3) ELSE s3 :
         s3 \in {state_may_have_changed(s2) :
                 s2 \in {func(name, enter(s1, name)) :
                         s1 \in {IF s.expected_state_change = Nothing
                                 THEN expect_change(s, default_state_change(name))
                                 ELSE s}}}})

printing(s) == state_influencer("printing", s)

not_printing(s) == state_influencer("not_printing", s)

finished(s) == state_influencer("finished", s)

busy(s) == state_influencer("busy", s)

paused(s) == state_influencer("paused", s)

resumed(s) == state_influencer("resumed", s)

ok(s) == state_influencer("ok", s)

attention(s) == state_influencer("attention", s)

error(s) == state_influencer("error", s)

write(s, line) == [s EXCEPT !.sent = Append(@, line)]

\* What insert_progress(...).progress can give: a TimeoutError (Nothing) or a
\* percentage.
ProgressReplies == {Nothing, Just(50), Just(100)}

\* What serial.write("M27", SD_PRINTING_REGEX) can give: a TimeoutError, a
\* match of group 1 (Not SD printing) or a match of group 2 (\d+:\d+).
M27Replies == {"TimeoutError", "Not SD printing", "12:345"}

\* Faulty variant of the M27 part: a paused print is cancelled as well.
update_state_m27_cancels_paused(s1, m27) ==
    IF s1.raised THEN s1
    ELSE The({IF m27 = "TimeoutError" THEN s2
              ELSE IF m27 = "Not SD printing"
              THEN not_printing(s2)
              ELSE printing(s2) :
              s2 \in {write(s1, "M27")}})

\* The M27 part of update_state (lines 146-156), from the manager s1 the
\* progress part left.
update_state_m27(s1, m27) ==
    IF s1.raised THEN s1
    ELSE The({IF m27 = "TimeoutError" THEN s2
              ELSE IF m27 = "Not SD printing" /\ s2.printing_state # "PAUSED"
              THEN not_printing(s2)
              ELSE printing(s2) :
              s2 \in {write(s1, "M27")}})

\* Faulty variant of update_state: the progress query is left out.
update_state_no_progress(s, progress, m27) ==
    IF is_busy(s) THEN write(s, "PRUSA PING")
    ELSE update_state_m27(s, m27)

update_state(s, progress, m27) ==
    IF is_busy(s) THEN write(s, "PRUSA PING")
    ELSE The({update_state_m27(s1, m27) :
              s1 \in {IF s.printing_state = "PRINTING"
                      THEN IF progress = Nothing THEN write(s, "progress")
                           ELSE IF progress[1] = 100
                           THEN finished(expect_change(write(s, "progress"),
                                    StateChange(Nothing, "FINISHED" :> "MARLIN",
                                                EmptyDict, None)))
                           ELSE write(s, "progress")
                      ELSE s}})

\* ------------------------------------------------------------ the state

VARIABLES
    base_state,             \* States.READY or States.BUSY
    printing_state,         \* None or one of PRINTING_STATES
    override_state,         \* None, ATTENTION or ERROR
    internal_busy,          \* flag flipped by other components
    last_state,             \* reported state history
    current_state,
    expected_state_change,  \* Nothing or Just(StateChange)
    last_call,              \* the last operation: what it was given, the
                            \* manager before it, what it emitted and wrote
    pc,                     \* per thread: the statement it is about to run
    frame,                  \* per thread: the locals of its mutator call
    started,                \* calls and ticks the threads began
    transitions,            \* the changes of the composed state, in order
    signals,                \* the state_changed signals sent, in order
    running,                \* OldBuddy.running
    state_manager_running,  \* StateManager.running
    alive,                  \* the threads started and not yet ended
    stop_pc,                \* OldBuddy.stop: the statement it is about to run
    stopped,                \* the components whose stop() was called, in order
    polled_after_stop,      \* update_state ran after OldBuddy.stop returned
    handled,                \* the last response handle_telemetry_response got
                            \* and what was done with it
    api_call,               \* the last call that posted to the service
    instance,               \* the class attribute `instance`, per class
    constructed,            \* the objects constructed, per class
    resume_call,            \* the last run of the resume print handler
    waiter,                 \* a caller of wait_for_instruction: where it is
                            \* and the instruction it waits for
    unconfirmed,            \* the instructions retired by a timeout
    instructions,           \* the instructions enqueued, in enqueue order
    serial_queue,           \* the instructions waiting, next one first
    in_flight,              \* the instruction written and not yet confirmed
    completed               \* the instructions retired, in order

fields == <<base_state, printing_state, override_state, internal_busy,
            last_state, current_state, expected_state_change>>

threads == <<pc, frame, started, transitions, signals>>

apis == <<api_call, instance, constructed, resume_call>>

buddy == <<running, state_manager_running, alive, stop_pc, stopped,
           polled_after_stop, handled, apis>>

queues == <<instructions, serial_queue, in_flight, completed, waiter,
            unconfirmed>>

vars == <<fields, last_call, threads, buddy, queues>>

\* The manager's fields as they are now, at the start of a call.
Self ==
    [base_state |-> base_state,
     printing_state |-> printing_state,
     override_state |-> override_state,
     internal_busy |-> internal_busy,
     last_state |-> last_state,
     current_state |-> current_state,
     expected_state_change |-> expected_state_change,
     emitted |-> <<>>,
     sent |-> <<>>,
     called |-> <<>>,
     raised |-> FALSE]

Call(op, line, args, s) ==
    [op |-> op, line |-> line, args |-> args, pre |-> Self,
     emitted |-> s.emitted, sent |-> s.sent, called |-> s.called,
     raised |-> s.raised]

\* The manager's fields after a call that ended in s.
Return(s) ==
    /\ base_state' = s.base_state
    /\ printing_state' = s.printing_state
    /\ override_state' = s.override_state
    /\ internal_busy' = s.internal_busy
    /\ last_state' = s.last_state
    /\ current_state' = s.current_state
    /\ expected_state_change' = s.expected_state_change
    /\ UNCHANGED <<threads, buddy, queues>>

\* The threads that run the mutators: the serial reader (line handlers) and
\* the manager's own poller (_keep_updating_state).
Threads == {"reader", "poller"}

\* The locals of wrapper and state_may_have_changed, and where the call
\* returns to.
NoFrame ==
    [name |-> None, has_set_expected_change |-> FALSE, smhc_return |-> None,
     return |-> None, command_id |-> Nothing, source |-> None]

\* The manager after construction, before any thread has called it.
Constructed ==
    /\ base_state = "READY"
    /\ printing_state = None
    /\ override_state = None
    /\ internal_busy = FALSE
    /\ last_state = "READY"
    /\ current_state = "READY"
    /\ expected_state_change = Nothing
    /\ pc = [t \in Threads |-> "idle"]
    /\ frame = [t \in Threads |-> NoFrame]
    /\ started = 0
    /\ transitions = <<>>
    /\ signals = <<>>
    /\ running = TRUE
    /\ state_manager_running = TRUE
    /\ alive = {"connect_thread", "State updater"}
    /\ stop_pc = "not called"
    /\ stopped = <<>>
    /\ polled_after_stop = FALSE
    /\ handled = Nothing
    /\ api_call = Nothing
    /\ instance = [class \in {"StateManager", "ConnectAPI"} |-> Nothing]
    /\ constructed = [class \in {"StateManager", "ConnectAPI"} |-> 1]
    /\ resume_call = Nothing
    /\ waiter = [pc |-> "idle", instruction |-> Nothing]
    /\ unconfirmed = {}
    /\ instructions = <<>>
    /\ serial_queue = <<>>
    /\ in_flight = Nothing
    /\ completed = <<>>

\* StateManager.__init__
Init ==
    /\ Constructed
    /\ last_call = [op |-> "__init__", line |-> None, args |-> <<>>,
                    pre |-> [base_state |-> "READY", printing_state |-> None,
                             override_state |-> None, internal_busy |-> FALSE,
                             last_state |-> "READY", current_state |-> "READY",
                             expected_state_change |-> Nothing,
                             emitted |-> <<>>, sent |-> <<>>,
                             called |-> <<>>, raised |-> FALSE],
                    emitted |-> <<>>, sent |-> <<>>, called |-> <<>>,
                    raised |-> FALSE]

\* ---------------------------------------- the registered output handlers
\* A line of the printer matching the handler's pattern arrives and the
\* handler runs the mutator.

OkLine ==
    \E s \in {ok(Self)} :
        /\ last_call' = Call("ok", "ok", <<>>, s)
        /\ Return(s)

BusyLine ==
    \E s \in {busy(Self)} :
        /\ last_call' = Call("busy", "echo:busy: processing", <<>>, s)
        /\ Return(s)

AttentionLine ==
    \E s \in {attention(Self)} :
        /\ last_call' = Call("attention", "echo:busy: paused for user", <<>>, s)
        /\ Return(s)

PausedLine ==
    \E s \in {paused(Self)} :
        /\ last_call' = Call("paused", "// action:paused", <<>>, s)
        /\ Return(s)

ResumedLine ==
    \E s \in {resumed(Self)} :
        /\ last_call' = Call("resumed", "// action:resumed", <<>>, s)
        /\ Return(s)

CancelLine ==
    \E s \in {not_printing(Self)} :
        /\ last_call' = Call("not_printing", "// action:cancel", <<>>, s)
        /\ Return(s)

StartPrintLine ==
    \E s \in {printing(Self)} :
        /\ last_call' = Call("printing", "echo:enqueing \"M24\"", <<>>, s)
        /\ Return(s)

PrintDoneLine ==
    \E s \in {finished(Self)} :
        /\ last_call' = Call("finished", "Done printing file", <<>>, s)
        /\ Return(s)

ErrorLine ==
    \E s \in {error(Self)} :
        /\ last_call' = Call("error", "Error:Printer stopped due to errors.", <<>>, s)
        /\ Return(s)

\* ------------------------------------------------------------ the poller

\* One tick of _keep_updating_state: update_state with the replies the
\* printer gives to the progress query and to M27. A query that is not made
\* has no reply (Nothing).
UpdateState ==
    \E progress \in ProgressReplies, m27 \in M27Replies :
        /\ (is_busy(Self) \/ printing_state # "PRINTING") => progress = Nothing
        /\ is_busy(Self) => m27 = "TimeoutError"
        /\ \E s \in {update_state(Self, progress, m27)} :
               /\ last_call' = Call("update_state", None, <<progress, m27>>, s)
               /\ Return(s)

\* ------------------------------------------------ the other components

CommandIds == 1..MaxCommandId

\* The StateChange objects a caller of expect_change hands over: one with a
\* default_source and no api response, and for each command id the command
\* handlers' (default_source CONNECT and the command's api response), one
\* whose two dicts give different sources, one whose to_states gives no
\* source and one with a to_states entry only.
StateChangesGiven ==
    {StateChange(Nothing, EmptyDict, EmptyDict, "CONNECT")}
    \cup {StateChange(Just([command_id |-> c]), EmptyDict, EmptyDict, "CONNECT") :
            c \in CommandIds}
    \cup {StateChange(Just([command_id |-> c]), "PRINTING" :> "WUI",
                      "PAUSED" :> "CONNECT", None) : c \in CommandIds}
    \cup {StateChange(Just([command_id |-> c]), "PRINTING" :> None,
                      EmptyDict, None) : c \in CommandIds}
    \cup {StateChange(Just([command_id |-> c]), "PRINTING" :> "WUI",
                      EmptyDict, None) : c \in CommandIds}

\* A command handler announces the change its command is about to cause.
ExpectChange ==
    \E change \in StateChangesGiven :
        /\ last_call' = Call("expect_change", None, <<change>>, expect_change(Self, change))
        /\ Return(expect_change(Self, change))

\* Another component sets or clears the internal busy flag.
SetInternalBusy ==
    \E flag \in BOOLEAN :
        /\ flag # internal_busy
        /\ last_call' = Call("internal_busy", None, <<flag>>, Self)
        /\ Return([Self EXCEPT !.internal_busy = flag])

Next ==
    \/ OkLine
    \/ BusyLine
    \/ AttentionLine
    \/ PausedLine
    \/ ResumedLine
    \/ CancelLine
    \/ StartPrintLine
    \/ PrintDoneLine
    \/ ErrorLine
    \/ UpdateState
    \/ ExpectChange
    \/ SetInternalBusy

Spec == Init /\ [][Next]_vars

\* ======================================================== the properties

\* The composed state by precedence: override if set, else printing if set,
\* else base.
Composed(override, printing_slot, base) ==
    IF override # None THEN override
    ELSE IF printing_slot # None THEN printing_slot
    ELSE base

ComposedBefore(call) ==
    Composed(call.pre.override_state, call.pre.printing_state, call.pre.base_state)

ComposedNow == Composed(override_state, printing_state, base_state)

\* The emissions of a call as <<state, source>> pairs, in order.
Brief(call) == [i \in DOMAIN call.emitted |-> <<call.emitted[i].state, call.emitted[i].source>>]

EmissionsOf(call) == {call.emitted[i] : i \in DOMAIN call.emitted}

\* The correlation id of an expectation: the command id of its api response.
Correlation(change) ==
    IF change.api_response = Nothing THEN Nothing
    ELSE Just(change.api_response[1].command_id)

\* The expectation matches the transition last -> curr.
Matches(last, curr, change) ==
    \/ curr \in DOMAIN change.to_states
    \/ last \in DOMAIN change.from_states
    \/ change.default_source # None

\* C1: whenever no mutator is in progress, and at every state_changed
\* emission, the reported state (current_state) is the composed state of the
\* three slots: override if set, else printing if set, else base.
C1_ReportedStateIsComposed ==
    /\ current_state = ComposedNow
    /\ \A em \in EmissionsOf(last_call) :
           em.state = Composed(em.override, em.printing, em.base)

\* A mutator has just emitted while both an override and a printing state
\* are set.
C1_Witness ==
    /\ last_call.op \in Mutators
    /\ last_call.emitted # <<>>
    /\ override_state # None
    /\ printing_state # None

\* C2 (as claimed): every observed line emits state_changed exactly once if
\* the composed state after the line differs from the composed state before
\* it, and not at all if it does not (lines whose handler raised aside).
C2_OneEmissionPerChange ==
    (last_call.line # None /\ ~last_call.raised)
        => Len(last_call.emitted) = IF ComposedBefore(last_call) # ComposedNow THEN 1 ELSE 0

\* C3: a mutator entered with an empty expectation slot leaves it empty when
\* it returns, emission or not (also the mutator a poll tick calls for the
\* M27 reply when the tick made no progress-100 announcement), and at every
\* state_changed emission the expectation slot is empty.
C3_ExpectationSlotEmptied ==
    /\ (last_call.op \in Mutators /\ last_call.pre.expected_state_change = Nothing)
           => (~last_call.raised /\ expected_state_change = Nothing)
    /\ (/\ last_call.op = "update_state"
        /\ last_call.pre.expected_state_change = Nothing
        /\ last_call.args[1] # Just(100))
           => (~last_call.raised /\ expected_state_change = Nothing)
    /\ \A em \in EmissionsOf(last_call) : em.slot = Nothing

\* A mutator entered with an empty slot has emitted, once from its own
\* default and, in another state, a caller's expectation was consumed.
C3_Witness ==
    /\ last_call.op \in Mutators
    /\ last_call.pre.expected_state_change = Nothing
    /\ last_call.emitted # <<>>
    /\ expected_state_change = Nothing

\* The rule of C4 for the source of a transition last -> curr under an
\* installed expectation.
ReferenceSource(last, curr, change) ==
    LET src_from == IF last \in DOMAIN change.from_states
                    THEN change.from_states[last] ELSE None
        src_to == IF curr \in DOMAIN change.to_states
                  THEN change.to_states[curr] ELSE None
    IN CASE src_from # None /\ src_to # None /\ src_from # src_to -> src_from
         [] src_from # None /\ (src_to = None \/ src_to = src_from) -> src_from
         [] src_from = None /\ src_to # None -> src_to
         [] src_from = None /\ src_to = None -> change.default_source

\* C4: every emission made while an expectation is installed carries the
\* source the reference rule gives for (last, curr, expectation): src_from if
\* both lookups are defined and differ, else the defined one, else
\* default_source.
C4_SourceFollowsRule ==
    \A em \in EmissionsOf(last_call) :
        em.consulted # Nothing
            => em.source = ReferenceSource(em.last, em.state, em.consulted[1])

\* An emission for which from_states and to_states give different sources.
C4_Witness ==
    \E em \in EmissionsOf(last_call) :
        /\ em.consulted # Nothing
        /\ em.last \in DOMAIN em.consulted[1].from_states
        /\ em.state \in DOMAIN em.consulted[1].to_states
        /\ em.consulted[1].from_states[em.last] # em.consulted[1].to_states[em.state]
        /\ em.source = em.consulted[1].from_states[em.last]

\* The source C5 gives for an emission of a mutator's default expectation.
ClaimedDefaultSource(op, em) ==
    CASE op \in {"printing", "paused", "resumed", "attention"} -> "USER"
      [] op \in {"not_printing", "finished", "busy"} -> "MARLIN"
      [] op = "error" -> "WUI"
      [] op = "ok" -> IF em.last \in {"ATTENTION", "ERROR"} THEN "USER" ELSE "MARLIN"

\* C5 (as claimed): every emission of a mutator that was entered with an
\* empty expectation slot carries the source of that mutator's default
\* expectation and no command id; a paused line while printing=PRINTING (no
\* override) emits exactly state_changed(PAUSED, source=USER).
C5_DefaultSourceEmitted ==
    (last_call.op \in Mutators /\ last_call.pre.expected_state_change = Nothing)
        => /\ \A em \in EmissionsOf(last_call) :
                  /\ em.source = ClaimedDefaultSource(last_call.op, em)
                  /\ em.command_id = Nothing
           /\ (/\ last_call.op = "paused"
               /\ last_call.pre.printing_state = "PRINTING"
               /\ last_call.pre.override_state = None)
                  => Brief(last_call) = << <<"PAUSED", "USER">> >>

\* C6: a resumed line that finds printing=PAUSED, no override and a caller's
\* expectation with default_source=CONNECT and correlation id c in the slot
\* emits exactly one state_changed: PRINTING, source CONNECT, command_id c.
C6_RemoteResumeAttributed ==
    (/\ last_call.op = "resumed"
     /\ last_call.pre.printing_state = "PAUSED"
     /\ last_call.pre.override_state = None
     /\ last_call.pre.expected_state_change # Nothing
     /\ \E c \in CommandIds :
            last_call.pre.expected_state_change[1] =
                StateChange(Just([command_id |-> c]), EmptyDict, EmptyDict, "CONNECT"))
        => /\ Brief(last_call) = << <<"PRINTING", "CONNECT">> >>
           /\ last_call.emitted[1].command_id =
                  Correlation(last_call.pre.expected_state_change[1])
           /\ last_call.emitted[1].command_id # Nothing

\* The resumed line has been handled with the caller's expectation installed.
C6_Witness ==
    /\ last_call.op = "resumed"
    /\ last_call.pre.printing_state = "PAUSED"
    /\ last_call.pre.override_state = None
    /\ last_call.pre.expected_state_change =
           Just(StateChange(Just([command_id |-> 1]), EmptyDict, EmptyDict, "CONNECT"))
    /\ Len(last_call.emitted) = 1
    /\ last_call.emitted[1].command_id = Just(1)
    /\ current_state = "PRINTING"

\* C7 (as claimed): every emission made while an expectation is installed
\* carries that expectation's correlation id, matching or not.
C7_CommandIdOfAnyInstalled ==
    \A em \in EmissionsOf(last_call) :
        em.consulted # Nothing => em.command_id = Correlation(em.consulted[1])

\* C7 (amended): an emission made while an expectation is installed carries
\* that expectation's correlation id if the expectation matches the
\* transition (curr in to_states, last in from_states or default_source
\* set), and command_id None if it does not.
C7_CommandIdOfMatching ==
    \A em \in EmissionsOf(last_call) :
        em.consulted # Nothing
            => em.command_id = IF Matches(em.last, em.state, em.consulted[1])
                               THEN Correlation(em.consulted[1])
                               ELSE Nothing

\* An emission whose expectation matched by a key only and gave its id.
C7_Witness ==
    \E em \in EmissionsOf(last_call) :
        /\ em.consulted # Nothing
        /\ em.consulted[1].default_source = None
        /\ em.consulted[1].api_response # Nothing
        /\ em.command_id = Just(em.consulted[1].api_response[1].command_id)

\* C8: from printing=PRINTING, no override and no expectation, the line
\* `Done printing file` followed by the line `ok` emits FINISHED (MARLIN)
\* and then READY (MARLIN), nothing else, and leaves printing absent and
\* base READY.
C8_FinishThenOk ==
    [][(/\ last_call.line = "Done printing file"
        /\ last_call.pre.printing_state = "PRINTING"
        /\ last_call.pre.override_state = None
        /\ last_call.pre.expected_state_change = Nothing
        /\ last_call'.line = "ok")
           => /\ Brief(last_call) = << <<"FINISHED", "MARLIN">> >>
              /\ Brief(last_call') = << <<"READY", "MARLIN">> >>
              /\ printing_state' = None
              /\ base_state' = "READY"]_vars

\* The ok line has been handled right after the print was reported finished.
C8_Witness ==
    /\ last_call.line = "ok"
    /\ last_call.pre.printing_state = "FINISHED"
    /\ last_call.pre.last_state = "PRINTING"
    /\ last_call.pre.current_state = "FINISHED"
    /\ Brief(last_call) = << <<"READY", "MARLIN">> >>
    /\ printing_state = None
    /\ base_state = "READY"

\* C9: with no expectation installed, the line `echo:busy: paused for user`
\* arriving in a composed state other than ATTENTION emits exactly
\* state_changed(ATTENTION, USER); an ok line that finds override=ATTENTION
\* clears the override and first emits the change leaving ATTENTION with
\* source USER; with base=READY and no print that is the only emission,
\* state_changed(READY, USER).
C9_AttentionThenOk ==
    /\ (/\ last_call.op = "attention"
        /\ last_call.pre.expected_state_change = Nothing
        /\ ComposedBefore(last_call) # "ATTENTION")
           => Brief(last_call) = << <<"ATTENTION", "USER">> >>
    /\ (/\ last_call.op = "ok"
        /\ last_call.pre.expected_state_change = Nothing
        /\ last_call.pre.override_state = "ATTENTION")
           => /\ override_state = None
              /\ last_call.emitted # <<>>
              /\ last_call.emitted[1].last = "ATTENTION"
              /\ last_call.emitted[1].source = "USER"
              /\ (last_call.pre.base_state = "READY" /\ last_call.pre.printing_state = None)
                     => Brief(last_call) = << <<"READY", "USER">> >>

\* The ok line has taken the manager from ATTENTION back to READY.
C9_Witness ==
    /\ last_call.op = "ok"
    /\ last_call.pre.expected_state_change = Nothing
    /\ last_call.pre.override_state = "ATTENTION"
    /\ last_call.pre.base_state = "READY"
    /\ last_call.pre.printing_state = None
    /\ Brief(last_call) = << <<"READY", "USER">> >>

\* C10: a poll tick that starts not busy, with printing=PRINTING and no
\* override, and is told progress 100 emits state_changed(FINISHED, MARLIN)
\* first, no `Done printing file` line being involved.
C10_PollDrivenFinish ==
    (/\ last_call.op = "update_state"
     /\ ~last_call.pre.internal_busy
     /\ last_call.pre.base_state # "BUSY"
     /\ last_call.pre.printing_state = "PRINTING"
     /\ last_call.pre.override_state = None
     /\ last_call.args[1] = Just(100))
        => /\ last_call.emitted # <<>>
           /\ last_call.emitted[1].state = "FINISHED"
           /\ last_call.emitted[1].source = "MARLIN"
           /\ last_call.emitted[1].last = "PRINTING"

\* A poll tick has finished the print on progress 100.
C10_Witness ==
    /\ last_call.op = "update_state"
    /\ last_call.line = None
    /\ last_call.pre.printing_state = "PRINTING"
    /\ last_call.pre.override_state = None
    /\ last_call.args[1] = Just(100)
    /\ last_call.emitted # <<>>
    /\ last_call.emitted[1].state = "FINISHED"

\* The three slots are as they were when the last call began.
SlotsUnchanged ==
    /\ base_state = last_call.pre.base_state
    /\ printing_state = last_call.pre.printing_state
    /\ override_state = last_call.pre.override_state

\* C11: a poll tick that finds the printing state PAUSED leaves it PAUSED
\* whatever the M27 query replies (not SD printing, a byte position, no
\* reply); the composed state is as before and nothing is emitted.
C11_PausedSurvivesPoll ==
    (last_call.op = "update_state" /\ last_call.pre.printing_state = "PAUSED")
        => /\ printing_state = "PAUSED"
           /\ ComposedNow = ComposedBefore(last_call)
           /\ last_call.emitted = <<>>

\* A tick of a paused, not busy printer has asked M27 and was told the
\* printer is not SD printing.
C11_Witness ==
    /\ last_call.op = "update_state"
    /\ last_call.pre.printing_state = "PAUSED"
    /\ last_call.args[2] = "Not SD printing"
    /\ "M27" \in {last_call.sent[i] : i \in DOMAIN last_call.sent}

\* C12: a poll tick that finds the manager busy (base state BUSY or the
\* internal flag set) sends PRUSA PING and nothing else: no progress or M27
\* query, no mutator called, slots and expectation as before, no emission.
C12_BusyTickOnlyPings ==
    (/\ last_call.op = "update_state"
     /\ (last_call.pre.internal_busy \/ last_call.pre.base_state = "BUSY"))
        => /\ last_call.sent = <<"PRUSA PING">>
           /\ last_call.called = <<>>
           /\ SlotsUnchanged
           /\ expected_state_change = last_call.pre.expected_state_change
           /\ last_call.emitted = <<>>

\* A tick has pinged a printer whose base state is READY and whose print is
\* running: only the internal flag made it busy.
C12_Witness ==
    /\ last_call.op = "update_state"
    /\ last_call.pre.internal_busy
    /\ last_call.pre.base_state = "READY"
    /\ last_call.pre.printing_state = "PRINTING"
    /\ last_call.sent = <<"PRUSA PING">>

\* C18 (as claimed): a call of a mutator emits state_changed at most once,
\* and when it does the emission goes from the composed state before the
\* call to the composed state after it (calls that raised aside).
C18_OneEmissionPerMutatorCall ==
    (last_call.op \in Mutators /\ ~last_call.raised)
        => /\ Len(last_call.emitted) <= 1
           /\ \A em \in EmissionsOf(last_call) :
                  /\ em.last = ComposedBefore(last_call)
                  /\ em.state = ComposedNow

\* The precondition of a guarded mutator, on the slots the call found.
Precondition(call) ==
    CASE call.op = "paused" -> call.pre.printing_state = "PRINTING"
      [] call.op = "resumed" -> call.pre.printing_state = "PAUSED"
      [] call.op = "finished" -> call.pre.printing_state = "PRINTING"
      [] call.op = "printing" -> call.pre.printing_state = None
      [] call.op = "not_printing" -> call.pre.printing_state # None
      [] call.op = "busy" -> call.pre.base_state = "READY"

\* The slot a guarded mutator writes and what it writes there.
NamedSlotNow(call) == IF call.op = "busy" THEN base_state ELSE printing_state

NamedSlotTarget(call) ==
    CASE call.op = "paused" -> "PAUSED"
      [] call.op = "resumed" -> "PRINTING"
      [] call.op = "finished" -> "FINISHED"
      [] call.op = "printing" -> "PRINTING"
      [] call.op = "not_printing" -> None
      [] call.op = "busy" -> "BUSY"

GuardedMutators == {"paused", "resumed", "finished", "printing", "not_printing", "busy"}

\* C19: paused, resumed, finished, printing, not_printing and busy act only
\* under their precondition. When it is false the three slots are as before
\* and nothing is emitted; when it is true the named slot gets the named
\* value and the two other slots are as before.
C19_GuardedMutators ==
    last_call.op \in GuardedMutators
        => IF Precondition(last_call)
           THEN /\ NamedSlotNow(last_call) = NamedSlotTarget(last_call)
                /\ override_state = last_call.pre.override_state
                /\ last_call.op = "busy" => printing_state = last_call.pre.printing_state
                /\ last_call.op # "busy" => base_state = last_call.pre.base_state
           ELSE /\ SlotsUnchanged
                /\ last_call.emitted = <<>>

\* A finished line has arrived while the print was paused: the precondition
\* was false.
C19_Witness ==
    /\ last_call.op = "finished"
    /\ last_call.pre.printing_state = "PAUSED"
    /\ printing_state = "PAUSED"

\* C20 (as claimed): when the composed state changes while the installed
\* expectation matches the transition by key, names no source for it and has
\* no default source, state_changed is still emitted once, with no source,
\* and the expectation slot is emptied.
C20_UnspecifiedSourceStillEmits ==
    (/\ last_call.op \in Mutators
     /\ last_call.pre.expected_state_change # Nothing
     /\ ComposedBefore(last_call) # ComposedNow
     /\ Matches(ComposedBefore(last_call), ComposedNow,
                last_call.pre.expected_state_change[1])
     /\ ReferenceSource(ComposedBefore(last_call), ComposedNow,
                        last_call.pre.expected_state_change[1]) = None)
        => /\ Len(last_call.emitted) = 1
           /\ last_call.emitted[1].source = None
           /\ expected_state_change = Nothing

\* ================================================ the threads interleaved
\* The manager has no lock: the reader thread's line handlers, the poller
\* thread's update_state and a command handler's expect_change run on the
\* same fields, and a thread switch can fall between any two statements.
\* Here each statement of wrapper and state_may_have_changed is one step
\* (the body of a mutator is one step, the two halves of ok two).

MaxStarted == 2

\* The first half of ok (lines 290-293) and its second half (296-300).
ok_clear_override(s) == [s EXCEPT !.override_state = None]

ok_rest(s) ==
    [s EXCEPT !.printing_state = IF @ = "FINISHED" THEN None ELSE @,
              !.base_state = IF @ = "BUSY" THEN "READY" ELSE @]

\* The three slots become those of s; a change of the composed state is
\* noted.
SetSlots(s) ==
    /\ base_state' = s.base_state
    /\ printing_state' = s.printing_state
    /\ override_state' = s.override_state
    /\ transitions' = IF get_state(s) # get_state(Self)
                      THEN Append(transitions, <<get_state(Self), get_state(s)>>)
                      ELSE transitions

Goto(t, label) == pc' = [pc EXCEPT ![t] = label]

\* Thread t calls the mutator name and goes on at label when it returns.
CallMutator(t, name, label) ==
    /\ pc' = [pc EXCEPT ![t] = "wrapper_check"]
    /\ frame' = [frame EXCEPT ![t] = [NoFrame EXCEPT !.name = name, !.return = label]]

\* The reader thread has read a line and its handler calls a mutator.
ReaderLine ==
    /\ pc["reader"] = "idle"
    /\ started < MaxStarted
    /\ \E name \in Mutators : CallMutator("reader", name, "idle")
    /\ started' = started + 1
    /\ UNCHANGED <<fields, last_call, buddy, queues, transitions, signals>>

\* update_state, lines 128-132: the poller's tick begins.
PollerTick ==
    /\ pc["poller"] = "idle"
    /\ started < MaxStarted
    /\ started' = started + 1
    /\ Goto("poller", IF is_busy(Self) THEN "idle"
                      ELSE IF printing_state = "PRINTING" THEN "progress"
                      ELSE "m27")
    /\ UNCHANGED <<fields, last_call, buddy, queues, frame, transitions, signals>>

\* update_state, lines 135-140: the progress query is answered.
PollerProgress ==
    /\ pc["poller"] = "progress"
    /\ \E progress \in ProgressReplies :
           Goto("poller", IF progress = Just(100) THEN "announce" ELSE "m27")
    /\ UNCHANGED <<fields, last_call, buddy, queues, frame, started, transitions, signals>>

\* update_state, lines 141-142: the expectation of FINISHED is installed
\* and finished() is called.
PollerAnnounce ==
    /\ pc["poller"] = "announce"
    /\ expected_state_change' =
           Just(StateChange(Nothing, "FINISHED" :> "MARLIN", EmptyDict, None))
    /\ CallMutator("poller", "finished", "m27")
    /\ UNCHANGED <<base_state, printing_state, override_state, internal_busy,
                   last_state, current_state, last_call, buddy, queues, started, transitions,
                   signals>>

\* update_state, lines 146-156: the M27 query is answered.
PollerM27 ==
    /\ pc["poller"] = "m27"
    /\ \E m27 \in M27Replies :
           IF m27 = "TimeoutError"
           THEN Goto("poller", "idle") /\ frame' = [frame EXCEPT !["poller"] = NoFrame]
           ELSE IF m27 = "Not SD printing" /\ printing_state # "PAUSED"
           THEN CallMutator("poller", "not_printing", "idle")
           ELSE CallMutator("poller", "printing", "idle")
    /\ UNCHANGED <<fields, last_call, buddy, queues, started, transitions, signals>>

\* wrapper, lines 58-60: is the expectation slot empty?
WrapperCheck(t) ==
    /\ pc[t] = "wrapper_check"
    /\ IF expected_state_change = Nothing
       THEN /\ frame' = [frame EXCEPT ![t].has_set_expected_change = TRUE]
            /\ Goto(t, "wrapper_install")
       ELSE /\ UNCHANGED frame
            /\ Goto(t, "func")
    /\ UNCHANGED <<fields, last_call, buddy, queues, started, transitions, signals>>

\* wrapper, line 61: self.expect_change(state_change).
WrapperInstall(t) ==
    /\ pc[t] = "wrapper_install"
    /\ expected_state_change' = Just(default_state_change(frame[t].name))
    /\ Goto(t, "func")
    /\ UNCHANGED <<base_state, printing_state, override_state, internal_busy,
                   last_state, current_state, last_call, buddy, queues, frame, started,
                   transitions, signals>>

\* wrapper, line 66: func(self), up to its end or, in ok, up to its call of
\* state_may_have_changed.
Func(t) ==
    /\ pc[t] = "func"
    /\ IF frame[t].name = "ok"
       THEN IF override_state # None
            THEN /\ SetSlots(ok_clear_override(Self))
                 /\ frame' = [frame EXCEPT ![t].smhc_return = "ok_rest"]
            ELSE /\ SetSlots(ok_rest(Self))
                 /\ frame' = [frame EXCEPT ![t].smhc_return = "wrapper_stop"]
       ELSE /\ SetSlots(func(frame[t].name, Self))
            /\ frame' = [frame EXCEPT ![t].smhc_return = "wrapper_stop"]
    /\ Goto(t, "smhc_check")
    /\ UNCHANGED <<internal_busy, last_state, current_state,
                   expected_state_change, last_call, buddy, queues, started, signals>>

\* ok, lines 296-300, after its own state_may_have_changed returned; then
\* wrapper, line 67.
OkRest(t) ==
    /\ pc[t] = "ok_rest"
    /\ SetSlots(ok_rest(Self))
    /\ frame' = [frame EXCEPT ![t].smhc_return = "wrapper_stop"]
    /\ Goto(t, "smhc_check")
    /\ UNCHANGED <<internal_busy, last_state, current_state,
                   expected_state_change, last_call, buddy, queues, started, signals>>

\* state_may_have_changed, line 226.
SmhcCheck(t) ==
    /\ pc[t] = "smhc_check"
    /\ Goto(t, IF get_state(Self) # current_state THEN "smhc_last"
               ELSE frame[t].smhc_return)
    /\ UNCHANGED <<fields, last_call, buddy, queues, frame, started, transitions, signals>>

\* state_may_have_changed, line 227.
SmhcLast(t) ==
    /\ pc[t] = "smhc_last"
    /\ last_state' = current_state
    /\ Goto(t, "smhc_current")
    /\ UNCHANGED <<base_state, printing_state, override_state, internal_busy,
                   current_state, expected_state_change, last_call, buddy, queues, frame,
                   started, transitions, signals>>

\* state_may_have_changed, line 228.
SmhcCurrent(t) ==
    /\ pc[t] = "smhc_current"
    /\ current_state' = get_state(Self)
    /\ Goto(t, "smhc_expected")
    /\ UNCHANGED <<base_state, printing_state, override_state, internal_busy,
                   last_state, expected_state_change, last_call, buddy, queues, frame,
                   started, transitions, signals>>

\* state_may_have_changed, lines 242-247: command_id and source. A source of
\* None has no name: the AttributeError ends the call.
SmhcExpected(t) ==
    /\ pc[t] = "smhc_expected"
    /\ IF is_expected(Self)
       THEN IF expected_source(Self) = None
            THEN /\ Goto(t, frame[t].return)
                 /\ frame' = [frame EXCEPT ![t] = NoFrame]
            ELSE /\ Goto(t, "smhc_clear")
                 /\ frame' = [frame EXCEPT
                        ![t].command_id =
                            IF expected_state_change[1].api_response # Nothing
                            THEN Just(get_command_id(expected_state_change[1].api_response[1]))
                            ELSE Nothing,
                        ![t].source = expected_source(Self)]
       ELSE /\ Goto(t, "smhc_clear")
            /\ UNCHANGED frame
    /\ UNCHANGED <<fields, last_call, buddy, queues, started, transitions, signals>>

\* state_may_have_changed, line 248.
SmhcClear(t) ==
    /\ pc[t] = "smhc_clear"
    /\ expected_state_change' = Nothing
    /\ Goto(t, "smhc_send")
    /\ UNCHANGED <<base_state, printing_state, override_state, internal_busy,
                   last_state, current_state, last_call, buddy, queues, frame, started,
                   transitions, signals>>

\* state_may_have_changed, line 249: the signal is sent; its receivers read
\* the sender's last_state and current_state.
SmhcSend(t) ==
    /\ pc[t] = "smhc_send"
    /\ signals' = Append(signals, [last |-> last_state, state |-> current_state,
                                   command_id |-> frame[t].command_id,
                                   source |-> frame[t].source])
    /\ frame' = [frame EXCEPT ![t].command_id = Nothing, ![t].source = None]
    /\ Goto(t, frame[t].smhc_return)
    /\ UNCHANGED <<fields, last_call, buddy, queues, started, transitions>>

\* wrapper, lines 69-70: the default the wrapper installed is taken out.
WrapperStop(t) ==
    /\ pc[t] = "wrapper_stop"
    /\ expected_state_change' = IF frame[t].has_set_expected_change THEN Nothing
                                ELSE expected_state_change
    /\ Goto(t, frame[t].return)
    /\ frame' = [frame EXCEPT ![t] = NoFrame]
    /\ UNCHANGED <<base_state, printing_state, override_state, internal_busy,
                   last_state, current_state, last_call, buddy, queues, started, transitions,
                   signals>>

\* What a command handler announces before it sends its gcode.
ChangesOfCommands ==
    {StateChange(Just([command_id |-> c]), EmptyDict, EmptyDict, "CONNECT") :
        c \in CommandIds}

\* A command handler's thread calls expect_change.
HandlerExpectChange ==
    /\ \E change \in ChangesOfCommands :
           /\ expected_state_change # Just(change)
           /\ expected_state_change' = Just(change)
    /\ UNCHANGED <<base_state, printing_state, override_state, internal_busy,
                   last_state, current_state, last_call, buddy,
                   queues, threads>>

NextThreads ==
    \/ ReaderLine
    \/ PollerTick
    \/ PollerProgress
    \/ PollerAnnounce
    \/ PollerM27
    \/ \E t \in Threads : WrapperCheck(t)
    \/ \E t \in Threads : WrapperInstall(t)
    \/ \E t \in Threads : Func(t)
    \/ \E t \in Threads : OkRest(t)
    \/ \E t \in Threads : SmhcCheck(t)
    \/ \E t \in Threads : SmhcLast(t)
    \/ \E t \in Threads : SmhcCurrent(t)
    \/ \E t \in Threads : SmhcExpected(t)
    \/ \E t \in Threads : SmhcClear(t)
    \/ \E t \in Threads : SmhcSend(t)
    \/ \E t \in Threads : WrapperStop(t)
    \/ HandlerExpectChange

SpecThreads == Init /\ [][NextThreads]_vars

\* C13 (as claimed): under every interleaving of the reader's line handlers
\* and the poller's tick, every signal goes from one reported state to a
\* different one, and once both threads are back from the manager the
\* signals sent are the changes of the composed state, each once and in
\* order: none lost, none coalesced, none sent twice.
C13_AtomicEmission ==
    /\ \A i \in DOMAIN signals : signals[i].last # signals[i].state
    /\ (\A t \in Threads : pc[t] = "idle")
           => [i \in DOMAIN signals |-> <<signals[i].last, signals[i].state>>]
                  = transitions

\* The expectation in the slot is one a command handler installed.
ExplicitInstalled ==
    /\ expected_state_change # Nothing
    /\ expected_state_change[1] \in ChangesOfCommands

\* C14 (as claimed): under every interleaving, a wrapper's installing or
\* removing of its own default neither removes nor replaces an expectation
\* that a command handler installed with expect_change.
C14_ExplicitExpectationKept ==
    [][\A t \in Threads :
           (pc[t] \in {"wrapper_install", "wrapper_stop"} /\ pc'[t] # pc[t])
               => ~(ExplicitInstalled /\ expected_state_change' # expected_state_change)]_vars

\* ==================================================== OldBuddy: the core
\* The connect thread sends telemetry and handles what the service answers;
\* stop() shuts the components down.

\* What /p/telemetry can answer: a status code, a content type, a body that
\* json() decodes to a dict (Just) or raises JSONDecodeError on (Nothing),
\* and the command id of its header.
StatusCodes == {200, 204, 400, 401, 403, 501, 503}

Bodies ==
    {Nothing, Just(EmptyDict)}
    \cup {Just("command" :> c) :
            c \in {"SEND_INFO", "START_PRINT", "STOP_PRINT", "PAUSE_PRINT",
                   "RESUME_PRINT", "RESET_PRINTER", "SET_NAME"}}

ApiResponses ==
    [status_code : StatusCodes,
     content_type : {"text/x.gcode", "application/json"},
     data : Bodies,
     command_id : CommandIds]

\* What handling a response did: the command class given to the command
\* runner, the events emitted, the messages given to the LCD printer, and
\* whether an exception left the handler.
Handled(api_response, ran, events, lcd, raised) ==
    [api_response |-> api_response, ran |-> ran, events |-> events,
     lcd |-> lcd, raised |-> raised]

\* Faulty variant of determine_command: an unknown command is only logged.
determine_command_drops_unknown(api_response) ==
    IF api_response.data = Nothing
    THEN Handled(api_response, None, <<>>, <<>>, FALSE)
    ELSE IF "command" \notin DOMAIN api_response.data[1]
    THEN Handled(api_response, None, <<>>, <<>>, TRUE)
    ELSE The({CASE command = "SEND_INFO" -> Handled(api_response, "RespondWithInfo", <<>>, <<>>, FALSE)
                [] command = "START_PRINT" -> Handled(api_response, "StartPrint", <<>>, <<>>, FALSE)
                [] command = "STOP_PRINT" -> Handled(api_response, "StopPrint", <<>>, <<>>, FALSE)
                [] command = "PAUSE_PRINT" -> Handled(api_response, "PausePrint", <<>>, <<>>, FALSE)
                [] command = "RESUME_PRINT" -> Handled(api_response, "ResumePrint", <<>>, <<>>, FALSE)
                [] command = "RESET_PRINTER" -> Handled(api_response, "ResetPrinter", <<>>, <<>>, FALSE)
                [] OTHER -> Handled(api_response, None, <<>>, <<>>, FALSE) :
              command \in {api_response.data[1]["command"]}})

\* OldBuddy.determine_command. A body that does not decode is logged; a
\* dict without "command" raises KeyError.
determine_command(api_response) ==
    IF api_response.data = Nothing
    THEN Handled(api_response, None, <<>>, <<>>, FALSE)
    ELSE IF "command" \notin DOMAIN api_response.data[1]
    THEN Handled(api_response, None, <<>>, <<>>, TRUE)
    ELSE The({CASE command = "SEND_INFO" -> Handled(api_response, "RespondWithInfo", <<>>, <<>>, FALSE)
                [] command = "START_PRINT" -> Handled(api_response, "StartPrint", <<>>, <<>>, FALSE)
                [] command = "STOP_PRINT" -> Handled(api_response, "StopPrint", <<>>, <<>>, FALSE)
                [] command = "PAUSE_PRINT" -> Handled(api_response, "PausePrint", <<>>, <<>>, FALSE)
                [] command = "RESUME_PRINT" -> Handled(api_response, "ResumePrint", <<>>, <<>>, FALSE)
                [] command = "RESET_PRINTER" -> Handled(api_response, "ResetPrinter", <<>>, <<>>, FALSE)
                [] OTHER -> Handled(api_response, None,
                                    <<[event |-> "REJECTED",
                                       command_id |-> get_command_id(api_response),
                                       reason |-> "Unknown command"]>>,
                                    <<>>, FALSE) :
              command \in {api_response.data[1]["command"]}})

\* OldBuddy.handle_telemetry_response
handle_telemetry_response(api_response) ==
    IF api_response.status_code = 200
    THEN IF api_response.content_type = "text/x.gcode"
         THEN Handled(api_response, "ExecuteGcode", <<>>, <<>>, FALSE)
         ELSE determine_command(api_response)
    ELSE IF api_response.status_code >= 300
    THEN Handled(api_response, None, <<>>,
                 CASE api_response.status_code = 400 -> <<"enqueue_400">>
                   [] api_response.status_code = 401 -> <<"enqueue_401">>
                   [] api_response.status_code = 403 -> <<"enqueue_403">>
                   [] api_response.status_code = 501 -> <<"enqueue_501">>
                   [] OTHER -> <<>>,
                 FALSE)
    ELSE Handled(api_response, None, <<>>, <<>>, FALSE)

\* --- ConnectAPI ---

\* model.dict(exclude_none=True): the fields that are set, by name.
dict_exclude_none(model) ==
    [k \in {f \in DOMAIN model : model[f] # Nothing} |-> model[k][1]]

\* The model's telemetry as it is sent.
Telemetry == [state |-> Just("READY"), progress |-> Nothing]

\* Event(event=..., command_id=..., reason=..., ...)
Event(kwargs) ==
    [event |-> Just(kwargs.emit_event), command_id |-> kwargs.command_id,
     reason |-> kwargs.reason, state |-> kwargs.state,
     source |-> kwargs.source, root |-> kwargs.root, files |-> kwargs.files]

\* ConnectAPI.send_dict. posted is what session.post does: it raises
\* RequestException (Nothing) or gives a response (Just).
send_dict(path, json_dict, posted) ==
    IF posted = Nothing
    THEN [path |-> path, json_dict |-> json_dict, failed |-> TRUE,
          connection_error |-> <<[path |-> path, json_dict |-> json_dict]>>,
          raised |-> "RequestException", response |-> Nothing]
    ELSE [path |-> path, json_dict |-> json_dict, failed |-> FALSE,
          connection_error |-> <<>>, raised |-> None, response |-> posted]

\* ConnectAPI.send_model
send_model(path, model, posted) ==
    send_dict(path, dict_exclude_none(model), posted)

\* Faulty variant of emit_event: the request error is not caught.
emit_event_propagates(kwargs, posted) ==
    The({[sent |-> r, raised |-> r.raised] :
         r \in {send_model("/p/events", Event(kwargs), posted)}})

\* ConnectAPI.emit_event
emit_event(kwargs, posted) ==
    The({[sent |-> r,
          raised |-> IF r.raised = "RequestException" THEN None ELSE r.raised] :
         r \in {send_model("/p/events", Event(kwargs), posted)}})

\* OldBuddy.send_telemetry
send_telemetry(posted) ==
    The({IF r.raised = "RequestException"
         THEN [sent |-> r, raised |-> None, handled |-> Nothing]
         ELSE The({[sent |-> r,
                    raised |-> IF h.raised THEN "KeyError" ELSE None,
                    handled |-> Just(h)] :
                   h \in {handle_telemetry_response(r.response[1])}}) :
         r \in {send_model("/p/telemetry", Telemetry, posted)}})

\* keep_sending_telemetry and send_telemetry: while running, the connect
\* thread sends the telemetry; the request fails (RequestException, nothing
\* is handled) or is answered.
SendTelemetry ==
    /\ "connect_thread" \in alive
    /\ running
    /\ \E posted \in {Nothing} \cup {Just(r) : r \in ApiResponses} :
           \E s \in {send_telemetry(posted)} :
               /\ handled' = s.handled
               /\ api_call' = Just([op |-> "send_telemetry", sent |-> s.sent,
                                    raised |-> s.raised])
    /\ UNCHANGED <<fields, last_call, threads, queues, running,
                   state_manager_running, alive, stop_pc, stopped,
                   polled_after_stop, instance, constructed, resume_call>>

\* The events the storage's signals make OldBuddy emit (media_inserted,
\* media_ejected).
MediaEvents ==
    {[emit_event |-> "MEDIUM_INSERTED", command_id |-> Nothing,
      reason |-> Nothing, state |-> Nothing, source |-> Nothing,
      root |-> Just("/sdcard"), files |-> Just("files")],
     [emit_event |-> "MEDIUM_EJECTED", command_id |-> Nothing,
      reason |-> Nothing, state |-> Nothing, source |-> Nothing,
      root |-> Just("/sdcard"), files |-> Nothing]}

\* What /p/events answers.
EventResponses ==
    {r \in ApiResponses : /\ r.status_code \in {204, 400}
                          /\ r.content_type = "application/json"
                          /\ r.data = Nothing}

\* media_inserted, media_ejected: a signal of the storage makes OldBuddy
\* emit an event while the storage runs.
MediaEvent ==
    /\ stopped = <<>>
    /\ \E kwargs \in MediaEvents :
       \E posted \in {Nothing} \cup {Just(r) : r \in EventResponses} :
       \E s \in {emit_event(kwargs, posted)} :
           api_call' = Just([op |-> "emit_event", sent |-> s.sent,
                             raised |-> s.raised])
    /\ UNCHANGED <<fields, last_call, threads, queues, running,
                   state_manager_running, alive, stop_pc, stopped,
                   polled_after_stop, handled, instance, constructed,
                   resume_call>>

\* --- StateManager.__init__ and ConnectAPI.__init__ ---

\* The most objects of one class the model constructs.
MaxInstances == 2

Classes == {"StateManager", "ConnectAPI"}

\* __init__ of either class: it raises when the class attribute instance is
\* set, and otherwise goes on to build the object. Nothing assigns instance.
init_instance(class_instance, count) ==
    IF class_instance # Nothing
    THEN [raised |-> TRUE, instance |-> class_instance, constructed |-> count]
    ELSE [raised |-> FALSE, instance |-> class_instance, constructed |-> count + 1]

\* StateManager(serial) is called once more.
ConstructStateManager ==
    /\ constructed["StateManager"] < MaxInstances
    /\ \E o \in {init_instance(instance["StateManager"], constructed["StateManager"])} :
           /\ instance' = [instance EXCEPT !["StateManager"] = o.instance]
           /\ constructed' = [constructed EXCEPT !["StateManager"] = o.constructed]
    /\ UNCHANGED <<fields, last_call, threads, queues, running,
                   state_manager_running, alive, stop_pc, stopped,
                   polled_after_stop, handled, api_call, resume_call>>

\* ConnectAPI(address, port, token) is called once more.
ConstructConnectAPI ==
    /\ constructed["ConnectAPI"] < MaxInstances
    /\ \E o \in {init_instance(instance["ConnectAPI"], constructed["ConnectAPI"])} :
           /\ instance' = [instance EXCEPT !["ConnectAPI"] = o.instance]
           /\ constructed' = [constructed EXCEPT !["ConnectAPI"] = o.constructed]
    /\ UNCHANGED <<fields, last_call, threads, queues, running,
                   state_manager_running, alive, stop_pc, stopped,
                   polled_after_stop, handled, api_call, resume_call>>

\* --- ResumePrint ---

\* TryUntilState._try_until_state(gcode, desired_state): the gcode is
\* issued, and the routine returns or raises.
try_until_state(gcode, desired_state, outcome) ==
    [log |-> <<[op |-> "_try_until_state", gcode |-> gcode,
                desired_state |-> desired_state]>>,
     raised |-> outcome = "raised"]

\* Faulty variant of _run_command: the file printer is resumed first.
run_command_resumes_first(outcome, is_printing) ==
    The({[log |-> (IF is_printing THEN <<[op |-> "file_printer.resume"]>> ELSE <<>>) \o r.log,
          raised |-> r.raised] :
         r \in {try_until_state("M602", "PRINTING", outcome)}})

\* ResumePrint._run_command
run_command(outcome, is_printing) ==
    The({IF r.raised
         THEN r
         ELSE [log |-> IF is_printing
                       THEN Append(r.log, [op |-> "file_printer.resume"])
                       ELSE r.log,
               raised |-> FALSE] :
         r \in {try_until_state("M602", "PRINTING", outcome)}})

\* The command runner runs the ResumePrint command the telemetry response
\* asked for.
RunResumePrint ==
    /\ handled # Nothing
    /\ handled[1].ran = "ResumePrint"
    /\ \E outcome \in {"returned", "raised"}, is_printing \in BOOLEAN :
           resume_call' = Just([outcome |-> outcome, printing |-> is_printing,
                                ran |-> run_command(outcome, is_printing)])
    /\ UNCHANGED <<fields, last_call, threads, queues, running,
                   state_manager_running, alive, stop_pc, stopped,
                   polled_after_stop, handled, api_call, instance, constructed>>

\* keep_sending_telemetry: the connect thread finds running cleared and ends.
ConnectThreadEnds ==
    /\ "connect_thread" \in alive
    /\ ~running
    /\ alive' = alive \ {"connect_thread"}
    /\ UNCHANGED <<fields, last_call, threads, queues, apis, running,
                   state_manager_running, stop_pc, stopped, polled_after_stop,
                   handled>>

\* StateManager._keep_updating_state: while the manager's running is set the
\* poller thread goes on calling update_state; it ends when it finds it
\* cleared.
StateThreadLoop ==
    /\ "State updater" \in alive
    /\ IF state_manager_running
       THEN /\ polled_after_stop' = (stop_pc = "returned")
            /\ UNCHANGED alive
       ELSE /\ alive' = alive \ {"State updater"}
            /\ UNCHANGED polled_after_stop
    /\ UNCHANGED <<fields, last_call, threads, queues, apis, running,
                   state_manager_running, stop_pc, stopped, handled>>

\* The stop() calls of OldBuddy.stop, lines 161-168, in their order.
StopCalls ==
    <<"storage", "lcd_printer", "command_runner", "telemetry_gatherer",
      "ip_updater", "serial_queue", "serial", "connect_api">>

\* OldBuddy.stop, line 159: self.running = False.
StopClearsRunning ==
    /\ stop_pc = "not called"
    /\ running' = FALSE
    /\ stop_pc' = "join"
    /\ UNCHANGED <<fields, last_call, threads, queues, apis, state_manager_running,
                   alive, stopped, polled_after_stop, handled>>

\* OldBuddy.stop, line 160: self.connect_thread.join() returns once the
\* thread has ended.
StopJoinsConnectThread ==
    /\ stop_pc = "join"
    /\ "connect_thread" \notin alive
    /\ stop_pc' = "stop calls"
    /\ UNCHANGED <<fields, last_call, threads, queues, apis, running,
                   state_manager_running, alive, stopped, polled_after_stop,
                   handled>>

\* OldBuddy.stop, lines 161-168: the next component is stopped.
StopComponent ==
    /\ stop_pc = "stop calls"
    /\ Len(stopped) < Len(StopCalls)
    /\ stopped' = Append(stopped, StopCalls[Len(stopped) + 1])
    /\ UNCHANGED <<fields, last_call, threads, queues, apis, running,
                   state_manager_running, alive, stop_pc, polled_after_stop,
                   handled>>

\* OldBuddy.stop, lines 170-173: the threads left are logged and
\* stopped_event is set.
StopReturns ==
    /\ stop_pc = "stop calls"
    /\ Len(stopped) = Len(StopCalls)
    /\ stop_pc' = "returned"
    /\ UNCHANGED <<fields, last_call, threads, queues, apis, running,
                   state_manager_running, alive, stopped, polled_after_stop,
                   handled>>

NextBuddy ==
    \/ SendTelemetry
    \/ MediaEvent
    \/ ConstructStateManager
    \/ ConstructConnectAPI
    \/ RunResumePrint
    \/ ConnectThreadEnds
    \/ StateThreadLoop
    \/ StopClearsRunning
    \/ StopJoinsConnectThread
    \/ StopComponent
    \/ StopReturns

SpecBuddy == Init /\ [][NextBuddy]_vars

\* The command class that goes with a response of status 200, None if there
\* is none.
MatchingHandler(api_response) ==
    IF api_response.content_type = "text/x.gcode" THEN "ExecuteGcode"
    ELSE IF api_response.data = Nothing THEN None
    ELSE IF "command" \notin DOMAIN api_response.data[1] THEN None
    ELSE CASE api_response.data[1]["command"] = "SEND_INFO" -> "RespondWithInfo"
           [] api_response.data[1]["command"] = "START_PRINT" -> "StartPrint"
           [] api_response.data[1]["command"] = "STOP_PRINT" -> "StopPrint"
           [] api_response.data[1]["command"] = "PAUSE_PRINT" -> "PausePrint"
           [] api_response.data[1]["command"] = "RESUME_PRINT" -> "ResumePrint"
           [] api_response.data[1]["command"] = "RESET_PRINTER" -> "ResetPrinter"
           [] OTHER -> None

\* The response was rejected: one REJECTED event with its command id.
Rejected(h) ==
    /\ Len(h.events) = 1
    /\ h.events[1].event = "REJECTED"
    /\ h.events[1].command_id = h.api_response.command_id

\* C15 (as claimed): a response of status 200 leads to exactly one of: its
\* matching handler is run, or a REJECTED event with its command id is
\* emitted; also when the body does not decode or the command is unknown.
C15_RunOrRejected ==
    (handled # Nothing /\ handled[1].api_response.status_code = 200)
        => /\ (handled[1].ran # None) # Rejected(handled[1])
           /\ handled[1].ran = MatchingHandler(handled[1].api_response)

\* component a was stopped, and before component b was.
StoppedBefore(a, b) ==
    \E i, j \in DOMAIN stopped : i < j /\ stopped[i] = a /\ stopped[j] = b

\* C16 (as claimed, its part on the poller, the queue and the dispatcher):
\* once stop has returned, the threads have found their running flag
\* cleared and have ended, the state manager was stopped before the serial
\* queue, and the serial queue before the serial.
C16_StopOrder ==
    stop_pc = "returned"
        => /\ alive = {}
           /\ ~state_manager_running
           /\ StoppedBefore("state_manager", "serial_queue")
           /\ StoppedBefore("serial_queue", "serial")

\* ===================================================== the serial queue
\* The helpers that build an instruction and hand it to the queue, and the
\* queue itself: a list of waiting instructions and at most one instruction
\* written and awaiting its confirmation. An instruction is known by its
\* number in enqueue order.

MaxInstructions == 3

\* The queue as the helpers see it.
Queue == [serial_queue |-> serial_queue, in_flight |-> in_flight]

\* SerialQueue.enqueue_one(instruction, to_front): appended, or put first in
\* line behind the instruction in flight.
enqueue_one(queue, instruction, to_front) ==
    [queue EXCEPT !.serial_queue = IF to_front THEN <<instruction>> \o @
                                   ELSE Append(@, instruction)]

\* SerialQueue.enqueue_list(instruction_list, front): the batch in one go,
\* its order kept.
enqueue_list(queue, instruction_list, front) ==
    [queue EXCEPT !.serial_queue = IF front THEN instruction_list \o @
                                   ELSE @ \o instruction_list]

\* Faulty variant of enqueue_instruction: to_front is not handed on.
enqueue_instruction_at_back(queue, instruction, to_front) ==
    enqueue_one(queue, instruction, FALSE)

enqueue_instruction(queue, instruction, to_front) ==
    enqueue_one(queue, instruction, to_front)

enqueue_matchable(queue, instruction, to_front) ==
    enqueue_one(queue, instruction, to_front)

enqueue_collecting(queue, instruction) ==
    enqueue_one(queue, instruction, FALSE)

enqueue_list_from_str(queue, instruction_list, front) ==
    enqueue_list(queue, instruction_list, front)

\* Instruction(message), MatchableInstruction(...), CollectingInstruction(...):
\* what is kept of an instruction built by a helper.
NewInstruction(class, to_front) ==
    [class |-> class, to_front |-> to_front, behind |-> in_flight]

\* The queue becomes q, with the instructions built added to the record.
Enqueued(q, built) ==
    /\ serial_queue' = q.serial_queue
    /\ in_flight' = q.in_flight
    /\ instructions' = instructions \o built
    /\ UNCHANGED <<fields, last_call, threads, buddy, completed, waiter,
                   unconfirmed>>

EnqueueInstruction ==
    /\ Len(instructions) < MaxInstructions
    /\ \E to_front \in BOOLEAN :
           Enqueued(enqueue_instruction(Queue, Len(instructions) + 1, to_front),
                    <<NewInstruction("Instruction", to_front)>>)

EnqueueMatchable ==
    /\ Len(instructions) < MaxInstructions
    /\ \E to_front \in BOOLEAN :
           Enqueued(enqueue_matchable(Queue, Len(instructions) + 1, to_front),
                    <<NewInstruction("MatchableInstruction", to_front)>>)

EnqueueCollecting ==
    /\ Len(instructions) < MaxInstructions
    /\ Enqueued(enqueue_collecting(Queue, Len(instructions) + 1),
                <<NewInstruction("CollectingInstruction", FALSE)>>)

EnqueueListFromStr ==
    /\ Len(instructions) + 2 <= MaxInstructions
    /\ \E front \in BOOLEAN :
           Enqueued(enqueue_list_from_str(
                        Queue, <<Len(instructions) + 1, Len(instructions) + 2>>, front),
                    <<NewInstruction("MatchableInstruction", front),
                      NewInstruction("MatchableInstruction", front)>>)

\* The queue writes the next waiting instruction once none is in flight.
Transmit ==
    /\ in_flight = Nothing
    /\ serial_queue # <<>>
    /\ in_flight' = Just(Head(serial_queue))
    /\ serial_queue' = Tail(serial_queue)
    /\ UNCHANGED <<fields, last_call, threads, buddy, instructions, completed,
                   waiter, unconfirmed>>

\* The instruction in flight is confirmed, or its wait times out: it is
\* retired and the queue goes on.
Retire ==
    /\ in_flight # Nothing
    /\ completed' = Append(completed, in_flight[1])
    /\ in_flight' = Nothing
    /\ \E confirmed \in BOOLEAN :
           unconfirmed' = IF confirmed THEN unconfirmed
                          ELSE unconfirmed \cup {in_flight[1]}
    /\ UNCHANGED <<fields, last_call, threads, buddy, instructions,
                   serial_queue, waiter>>

NextQueue ==
    \/ EnqueueInstruction
    \/ EnqueueMatchable
    \/ EnqueueCollecting
    \/ EnqueueListFromStr
    \/ Transmit
    \/ Retire

SpecQueue == Init /\ [][NextQueue]_vars

\* The instructions written so far, in the order they were written.
Written == completed \o in_flight

\* Where instruction i is in the sequence seq (0 if it is not).
Position(seq, i) ==
    IF \E k \in DOMAIN seq : seq[k] = i
    THEN CHOOSE k \in DOMAIN seq : seq[k] = i
    ELSE 0

\* Instruction i was enqueued with front=true while an instruction was in
\* flight, and has been written since.
PromotedAndWritten(i) ==
    /\ instructions[i].to_front
    /\ instructions[i].behind # Nothing
    /\ Position(Written, i) # 0

\* With no front=true so far, the instructions are written and retired in
\* enqueue order.
FifoWithoutFront ==
    (\A i \in DOMAIN instructions : ~instructions[i].to_front)
        => completed \o in_flight \o serial_queue
               = [i \in DOMAIN instructions |-> i]

\* An enqueue leaves the instruction in flight alone, and an instruction in
\* flight leaves only by being retired.
InFlightUndisturbed ==
    /\ instructions' # instructions => in_flight' = in_flight
    /\ (in_flight # Nothing /\ in_flight' # in_flight)
           => (in_flight' = Nothing /\ completed' = Append(completed, in_flight[1]))

\* C17 (as claimed): with no front=true the completion order is the enqueue
\* order; an instruction enqueued with front=true is written right after
\* the instruction that was in flight when it was enqueued; and the
\* instruction in flight is never interrupted or replaced.
C17_FrontRightAfterInFlight ==
    /\ [](/\ FifoWithoutFront
          /\ \A i \in DOMAIN instructions :
                 PromotedAndWritten(i)
                     => Position(Written, instructions[i].behind[1])
                            = Position(Written, i) - 1)
    /\ [][InFlightUndisturbed]_vars

\* C17 (amended): with no front=true the completion order is the enqueue
\* order; an instruction enqueued with front=true goes first in line behind
\* the instruction in flight: no instruction without front=true waits ahead
\* of one with it, and only instructions with front=true are written between
\* the one that was in flight and it; the instruction in flight is never
\* interrupted or replaced.
C17_FrontAheadOfWaiting ==
    /\ [](/\ FifoWithoutFront
          /\ \A k, l \in DOMAIN serial_queue :
                 (k < l /\ instructions[serial_queue[l]].to_front)
                     => instructions[serial_queue[k]].to_front
          /\ \A i \in DOMAIN instructions :
                 PromotedAndWritten(i)
                     => \A k \in DOMAIN Written :
                            (/\ Position(Written, instructions[i].behind[1]) < k
                             /\ k < Position(Written, i))
                                => instructions[Written[k]].to_front)
    /\ [][InFlightUndisturbed]_vars

\* An instruction enqueued with front=true while another was in flight has
\* been written right after that one, ahead of an instruction without
\* front=true that was enqueued before it and still waits.
C17_Witness ==
    \E i \in DOMAIN instructions :
        /\ PromotedAndWritten(i)
        /\ Position(Written, instructions[i].behind[1]) = Position(Written, i) - 1
        /\ \E k \in DOMAIN serial_queue :
               serial_queue[k] < i /\ ~instructions[serial_queue[k]].to_front

\* ------------------------------------------- more properties of Spec

\* C21 (as claimed): a poll tick that begins with the expectation slot empty
\* ends with it empty, whatever the slots and the replies: the expectation
\* of FINISHED that the tick installs at progress 100 does not outlive it.
C21_TickLeavesSlotEmpty ==
    (last_call.op = "update_state" /\ last_call.pre.expected_state_change = Nothing)
        => expected_state_change = Nothing

\* C22 (as claimed): while the override is ERROR, nothing but an ok line
\* changes the override or the composed state: no other line, no poll tick.
C22_ErrorUntilOk ==
    (last_call.pre.override_state = "ERROR" /\ last_call.op # "ok")
        => (override_state = "ERROR" /\ ComposedNow = "ERROR")

\* C22 (amended): while the override is ERROR, nothing but an ok line or a
\* paused-for-user line changes the override or the composed state; the
\* paused-for-user line makes both ATTENTION.
C22_ErrorUntilOkOrAttention ==
    last_call.pre.override_state = "ERROR"
        => /\ last_call.op \notin {"ok", "attention"}
                  => (override_state = "ERROR" /\ ComposedNow = "ERROR")
           /\ last_call.op = "attention"
                  => (override_state = "ATTENTION" /\ ComposedNow = "ATTENTION")

\* With the override ERROR a poll tick has taken the print out of the
\* printing slot, and the composed state is still ERROR.
C22_Witness ==
    /\ last_call.op = "update_state"
    /\ last_call.pre.override_state = "ERROR"
    /\ last_call.pre.printing_state = "PRINTING"
    /\ printing_state = None
    /\ ComposedNow = "ERROR"

\* ------------------------------------- more properties of SpecBuddy

\* C23: when the post fails with a request error, send_dict sends
\* connection_error once, with the path and the data, and raises the error
\* again (and sends none when the post is answered); emit_event lets no
\* request error reach its caller; send_telemetry catches it and handles
\* no command on that tick.
C23_RequestErrorContained ==
    api_call # Nothing
        => /\ IF api_call[1].sent.failed
              THEN /\ api_call[1].sent.connection_error
                          = <<[path |-> api_call[1].sent.path,
                               json_dict |-> api_call[1].sent.json_dict]>>
                   /\ api_call[1].sent.raised = "RequestException"
              ELSE /\ api_call[1].sent.connection_error = <<>>
                   /\ api_call[1].sent.raised = None
           /\ api_call[1].op = "emit_event" => api_call[1].raised = None
           /\ (api_call[1].op = "send_telemetry" /\ api_call[1].sent.failed)
                  => (api_call[1].raised = None /\ handled = Nothing)

\* An event was emitted and its post failed.
C23_Witness ==
    /\ api_call # Nothing
    /\ api_call[1].op = "emit_event"
    /\ api_call[1].sent.failed

\* C25: at most one StateManager and at most one ConnectAPI exist: a second
\* construction fails instead of creating a second object.
C25_AtMostOneInstance ==
    \A class \in Classes : constructed[class] <= 1

\* The resume of the file printer, in the log of a run of the command.
ResumeEntry == [op |-> "file_printer.resume"]

\* C26: the resume-print handler first issues M602 through the
\* try-until-state routine, toward PRINTING; it calls file_printer.resume()
\* only after the routine has returned and only if the file printer is
\* printing, and then it does call it; the resume is never the first step.
C26_ResumeAfterM602 ==
    resume_call # Nothing
        => /\ resume_call[1].ran.log[1]
                  = [op |-> "_try_until_state", gcode |-> "M602",
                     desired_state |-> "PRINTING"]
           /\ (\E i \in DOMAIN resume_call[1].ran.log :
                   resume_call[1].ran.log[i] = ResumeEntry)
                  <=> (resume_call[1].outcome = "returned" /\ resume_call[1].printing)
           /\ \A i \in DOMAIN resume_call[1].ran.log :
                  resume_call[1].ran.log[i] = ResumeEntry => i = 2

\* The command ran with the file printer printing, and resumed it.
C26_Witness ==
    /\ resume_call # Nothing
    /\ resume_call[1].printing
    /\ resume_call[1].ran.log = <<[op |-> "_try_until_state", gcode |-> "M602",
                                   desired_state |-> "PRINTING"], ResumeEntry>>

\* ------------------------------------- waiting for an instruction

\* Instruction.wait_for_confirmation(timeout): true when the instruction
\* has been confirmed, false when the timeout passes without it.
wait_for_confirmation(instruction) ==
    /\ \E k \in DOMAIN completed : completed[k] = instruction
    /\ instruction \notin unconfirmed

\* The should_wait the callers pass: lambda: self.running
should_wait == running

\* Faulty variant of wait_for_instruction: a timeout ends the wait too.
wait_for_instruction_breaks_on_timeout(at, instruction) ==
    CASE at = "while" -> IF should_wait THEN "wait_for_confirmation"
                         ELSE "returned"
      [] at = "wait_for_confirmation" -> "returned"

\* wait_for_instruction, one step of its loop; the result is where it
\* goes on.
wait_for_instruction(at, instruction) ==
    CASE at = "while" -> IF should_wait THEN "wait_for_confirmation"
                         ELSE "returned"
      [] at = "wait_for_confirmation" ->
             IF wait_for_confirmation(instruction) THEN "returned" ELSE "while"

\* A caller starts to wait for an instruction it has enqueued.
WaitBegin ==
    /\ waiter.pc \in {"idle", "returned"}
    /\ \E i \in 1..Len(instructions) :
           waiter' = [pc |-> "while", instruction |-> Just(i)]
    /\ UNCHANGED <<fields, last_call, threads, buddy, instructions,
                   serial_queue, in_flight, completed, unconfirmed>>

\* wait_for_instruction, line 15: while should_wait()
WaitTest ==
    /\ waiter.pc = "while"
    /\ waiter' = [waiter EXCEPT !.pc = wait_for_instruction("while", waiter.instruction[1])]
    /\ UNCHANGED <<fields, last_call, threads, buddy, instructions,
                   serial_queue, in_flight, completed, unconfirmed>>

\* wait_for_instruction, lines 16-17: the timed wait ends, by the
\* confirmation (break) or by the timeout (the loop goes round).
WaitForConfirmation ==
    /\ waiter.pc = "wait_for_confirmation"
    /\ waiter' = [waiter EXCEPT !.pc = wait_for_instruction("wait_for_confirmation",
                                                            waiter.instruction[1])]
    /\ UNCHANGED <<fields, last_call, threads, buddy, instructions,
                   serial_queue, in_flight, completed, unconfirmed>>

NextWait ==
    \/ EnqueueInstruction
    \/ Transmit
    \/ Retire
    \/ WaitBegin
    \/ WaitTest
    \/ WaitForConfirmation
    \/ StopClearsRunning

\* The waiting thread keeps running and its timed wait always ends.
SpecWait ==
    /\ Init
    /\ [][NextWait]_vars
    /\ WF_vars(WaitTest)
    /\ WF_vars(WaitForConfirmation)

\* The wait has something to return for.
WaitIsOver ==
    \/ wait_for_confirmation(waiter.instruction[1])
    \/ ~should_wait

\* C24: wait_for_instruction returns only when the instruction has been
\* confirmed or should_wait() has become false, and never while
\* should_wait() is true and the instruction is unconfirmed; and once the
\* instruction is confirmed, or the running flag is cleared, the wait does
\* return.
C24_WaitReturns ==
    /\ [](waiter.pc = "returned" => WaitIsOver)
    /\ (waiter.pc \in {"while", "wait_for_confirmation"} /\ WaitIsOver)
           ~> (waiter.pc = "returned")

\* The wait returned on the confirmation, with the running flag still set.
C24_Witness ==
    /\ waiter.pc = "returned"
    /\ should_wait
    /\ wait_for_confirmation(waiter.instruction[1])

====
